---- MODULE Spec2Model ----
(***************************************************************************)
(* Model of parse_teapot_data (src/v3/parser.py): the surface-block parser *)
(* of the Utah teapot data set.  Text is a TLA+ string; indices are those  *)
(* of Python (0-based, -1 for "not found").                                *)
(***************************************************************************)
EXTENDS Integers, Sequences, FiniteSets, TLC

(***************************************************************************)
(* Python string primitives used by the parser.                            *)
(***************************************************************************)

\* s[a:b] for a, b >= 0: an end beyond the text stops at its end
Slice(s, a, b) == SubSeq(s, a + 1, IF b > Len(s) THEN Len(s) ELSE b)

\* s[i], a one-character string
CharAt(s, i) == SubSeq(s, i + 1, i + 1)

\* the characters str.strip() removes
Whitespace == {" ", "\t", "\n", "\r"}

RECURSIVE FindIn(_, _, _, _)
\* the lowest index in lo..hi-1 where sub occurs in s, or -1; the search
\* goes through lo..hi-1 in order, the lower half before the upper half
FindIn(s, sub, lo, hi) ==
    IF hi <= lo THEN -1
    ELSE IF hi = lo + 1
    THEN (IF Slice(s, lo, lo + Len(sub)) = sub THEN lo ELSE -1)
    ELSE LET mid  == (lo + hi) \div 2
             left == FindIn(s, sub, lo, mid)
         IN  IF left # -1 THEN left ELSE FindIn(s, sub, mid, hi)

\* s.find(sub)
Find(s, sub) == FindIn(s, sub, 0, Len(s) - Len(sub) + 1)

RECURSIVE Split(_, _)
\* s.split(sep): the pieces between the occurrences of sep, left to right
Split(s, sep) ==
    LET i == Find(s, sep)
    IN  IF i = -1 THEN <<s>>
        ELSE <<Slice(s, 0, i)>> \o Split(Slice(s, i + Len(sep), Len(s)), sep)

RECURSIVE LStripChars(_, _)
LStripChars(s, chars) ==
    IF Len(s) > 0 /\ CharAt(s, 0) \in chars
    THEN LStripChars(Slice(s, 1, Len(s)), chars)
    ELSE s

RECURSIVE RStripChars(_, _)
RStripChars(s, chars) ==
    IF Len(s) > 0 /\ CharAt(s, Len(s) - 1) \in chars
    THEN RStripChars(Slice(s, 0, Len(s) - 1), chars)
    ELSE s

\* s.strip(chars)
StripChars(s, chars) == RStripChars(LStripChars(s, chars), chars)

\* s.strip()
Strip(s) == StripChars(s, Whitespace)

\* lst[1:]
Rest(lst) == SubSeq(lst, 2, Len(lst))

(***************************************************************************)
(* int(str) and float(str).                                                *)
(***************************************************************************)

Digits == {"0", "1", "2", "3", "4", "5", "6", "7", "8", "9"}

DigitVal(c) ==
    CASE c = "0" -> 0 [] c = "1" -> 1 [] c = "2" -> 2 [] c = "3" -> 3
      [] c = "4" -> 4 [] c = "5" -> 5 [] c = "6" -> 6 [] c = "7" -> 7
      [] c = "8" -> 8 [] c = "9" -> 9

\* a digit part of a Python numeric literal: digits, single underscores
\* allowed between two digits
IsDigitPart(u) ==
    /\ Len(u) > 0
    /\ CharAt(u, 0) \in Digits
    /\ CharAt(u, Len(u) - 1) \in Digits
    /\ \A i \in 0..(Len(u) - 1) :
          \/ CharAt(u, i) \in Digits
          \/ CharAt(u, i) = "_" /\ CharAt(u, i + 1) \in Digits

RECURSIVE DigitsValue(_, _)
\* the number a digit part denotes, acc being the value of the digits read
DigitsValue(u, acc) ==
    IF Len(u) = 0 THEN acc
    ELSE IF CharAt(u, 0) = "_" THEN DigitsValue(Slice(u, 1, Len(u)), acc)
    ELSE DigitsValue(Slice(u, 1, Len(u)), 10 * acc + DigitVal(CharAt(u, 0)))

RECURSIVE DigitCount(_)
DigitCount(u) ==
    IF Len(u) = 0 THEN 0
    ELSE (IF CharAt(u, 0) = "_" THEN 0 ELSE 1) + DigitCount(Slice(u, 1, Len(u)))

HasSign(t) == Len(t) > 0 /\ CharAt(t, 0) \in {"+", "-"}

Unsigned(t) == IF HasSign(t) THEN Slice(t, 1, Len(t)) ELSE t

SignOf(t) == IF Len(t) > 0 /\ CharAt(t, 0) = "-" THEN -1 ELSE 1

\* int of a stripped literal with its sign taken off
IntOfDigits(sign, u) ==
    IF IsDigitPart(u) THEN [ok |-> TRUE, val |-> sign * DigitsValue(u, 0)]
    ELSE [ok |-> FALSE, val |-> 0]

IntOfStripped(t) == IntOfDigits(SignOf(t), Unsigned(t))

\* int(s): [ok |-> TRUE, val |-> n], or ok = FALSE where int raises ValueError
IntOf(s) == IntOfStripped(Strip(s))

Lower(c) ==
    CASE c = "I" -> "i" [] c = "N" -> "n" [] c = "F" -> "f" [] c = "A" -> "a"
      [] c = "T" -> "t" [] c = "Y" -> "y" [] c = "E" -> "e" [] OTHER -> c

RECURSIVE LowerStr(_)
LowerStr(s) ==
    IF Len(s) = 0 THEN ""
    ELSE Lower(CharAt(s, 0)) \o LowerStr(Slice(s, 1, Len(s)))

Num(m, e) == [kind |-> "num", m |-> m, e |-> e]

Special(kind) == [kind |-> kind, m |-> 0, e |-> 0]

RECURSIVE Normal(_, _)
\* the decimal m * 10^e, without trailing zeros in m
Normal(m, e) ==
    IF m = 0 THEN Num(0, 0)
    ELSE IF m % 10 = 0 THEN Normal(m \div 10, e + 1)
    ELSE Num(m, e)

NoFloat == [ok |-> FALSE, val |-> Special("nan")]

\* the decimal with the integer digits ipart, the fraction digits fpart and
\* the exponent literal expo
DecimalOf(sign, ipart, fpart, expo) ==
    IF /\ ipart = "" \/ IsDigitPart(ipart)
       /\ fpart = "" \/ IsDigitPart(fpart)
       /\ ~(ipart = "" /\ fpart = "")
       /\ IsDigitPart(Unsigned(expo))
    THEN [ok  |-> TRUE,
          val |-> Normal(sign * DigitsValue(ipart \o fpart, 0),
                         SignOf(expo) * DigitsValue(Unsigned(expo), 0)
                           - DigitCount(fpart))]
    ELSE NoFloat

\* the mantissa split at its point, at index di (-1: no point)
MantissaOf(sign, mant, di, expo) ==
    IF di = -1 THEN DecimalOf(sign, mant, "", expo)
    ELSE DecimalOf(sign, Slice(mant, 0, di), Slice(mant, di + 1, Len(mant)), expo)

PointSplit(sign, mant, expo) == MantissaOf(sign, mant, Find(mant, "."), expo)

\* the literal split at its exponent mark, at index ei (-1: no exponent)
ExponentSplit(sign, u, ei) ==
    IF ei = -1 THEN PointSplit(sign, u, "0")
    ELSE PointSplit(sign, Slice(u, 0, ei), Slice(u, ei + 1, Len(u)))

\* float of a stripped, lower-case literal with its sign taken off
FloatOfUnsigned(sign, u) ==
    IF u \in {"inf", "infinity"}
    THEN [ok |-> TRUE, val |-> Special(IF sign = -1 THEN "-inf" ELSE "inf")]
    ELSE IF u = "nan" THEN [ok |-> TRUE, val |-> Special("nan")]
    ELSE ExponentSplit(sign, u, Find(u, "e"))

FloatOfStripped(t) == FloatOfUnsigned(SignOf(t), LowerStr(Unsigned(t)))

\* float(s): [ok |-> TRUE, val |-> v] with v the number the literal denotes
\* (kind "num" for m * 10^e, or kind "inf", "-inf", "nan"), or ok = FALSE
\* where float raises ValueError
FloatOf(s) == FloatOfStripped(Strip(s))

(***************************************************************************)
(* The body of the try block, lines 23-83, for one surface block.          *)
(***************************************************************************)

ArrayMissing == "Could not find 'array(' in surface block."

InvalidInt == "invalid literal for int() with base 10"

IndexOutOfRange == "list index out of range"

Mismatched == "Mismatched parentheses in points array."

InvalidFloat == "could not convert string to float"

NotEnough == "not enough values to unpack (expected 3)"

TooMany == "too many values to unpack (expected 3)"

RECURSIVE StripAll(_)
\* [p.strip() for p in lst]
StripAll(lst) ==
    IF lst = <<>> THEN <<>> ELSE <<Strip(Head(lst))>> \o StripAll(Tail(lst))

\* lines 27-31
ParamParts(block, param_end_idx) ==
    StripAll(Split(Strip(Slice(block, 0, param_end_idx)), ","))

NoParams ==
    [u_degree |-> 0, u_knot_type |-> "", u_basis |-> "",
     v_degree |-> 0, v_knot_type |-> "", v_basis |-> ""]

\* s.strip('"')
Unquote(s) == StripChars(s, {"\""})

BadParams(error) == [error |-> error, params |-> NoParams]

\* ParamsOf reading a missing token as the empty string
ParamsOfPadded(parts, u, v) ==
    IF ~u.ok \/ ~v.ok THEN BadParams(InvalidInt)
    ELSE [error  |-> "",
          params |-> [u_degree    |-> u.val,
                      u_knot_type |-> IF Len(parts) < 2 THEN "" ELSE parts[2],
                      u_basis     |-> IF Len(parts) < 3 THEN "" ELSE parts[3],
                      v_degree    |-> v.val,
                      v_knot_type |-> IF Len(parts) < 5 THEN "" ELSE parts[5],
                      v_basis     |-> IF Len(parts) < 6 THEN "" ELSE parts[6]]]

\* lines 33-38 with u = int(parts[0]) and v = int(parts[3]) (ok = FALSE
\* where the token is missing): the error raised ("" if none) and the six
\* parameters.  The statements run in order, so int(parts[0]) fails before
\* parts[1] is missed.
ParamsOf(parts, u, v) ==
    IF ~u.ok THEN BadParams(InvalidInt)
    ELSE IF Len(parts) < 4 THEN BadParams(IndexOutOfRange)
    ELSE IF ~v.ok THEN BadParams(InvalidInt)
    ELSE IF Len(parts) < 6 THEN BadParams(IndexOutOfRange)
    ELSE [error  |-> "",
          params |-> [u_degree    |-> u.val,
                      u_knot_type |-> parts[2],
                      u_basis     |-> parts[3],
                      v_degree    |-> v.val,
                      v_knot_type |-> parts[5],
                      v_basis     |-> parts[6]]]

RECURSIVE UnquoteAll(_)
UnquoteAll(lst) ==
    IF lst = <<>> THEN <<>> ELSE <<Unquote(Head(lst))>> \o UnquoteAll(Tail(lst))

\* int(parts[i]) for the 0-based index i, ok = FALSE if there is no parts[i]
IntAt(parts, i) == IntOf(IF Len(parts) > i THEN parts[i + 1] ELSE "")

\* ParseParams with the two degrees taken from each other's token
ParseParamsSwapped(parts) ==
    ParamsOf(UnquoteAll(parts), IntAt(parts, 3), IntAt(parts, 0))

\* lines 33-38
ParseParams(parts) == ParamsOf(UnquoteAll(parts), IntAt(parts, 0), IntAt(parts, 3))

\* ScanStep counting the ')' only: the first ')' ends the scan
ScanStepFirstClose(points_array_str, i, open_paren_count) ==
    LET char == CharAt(points_array_str, i)
        n    == IF char = ")" THEN 0 ELSE open_paren_count
    IN  [open_paren_count |-> n, close_paren_idx |-> IF n = 0 THEN i ELSE -1]

\* lines 46-52: one iteration of the loop, at index i with the counter
\* open_paren_count: the counter after it, and close_paren_idx (-1 unless
\* the iteration breaks)
ScanStep(points_array_str, i, open_paren_count) ==
    LET char == CharAt(points_array_str, i)
        n    == IF char = "(" THEN open_paren_count + 1
                ELSE IF char = ")" THEN open_paren_count - 1
                ELSE open_paren_count
    IN  [open_paren_count |-> n, close_paren_idx |-> IF n = 0 THEN i ELSE -1]

RECURSIVE ScanRange(_, _, _, _)
\* lines 45-52: the iterations for the indices lo..hi-1 in order, entered
\* with the counter open_paren_count; the iterations after a break do not run
ScanRange(points_array_str, lo, hi, open_paren_count) ==
    IF hi <= lo
    THEN [open_paren_count |-> open_paren_count, close_paren_idx |-> -1]
    ELSE IF hi = lo + 1 THEN ScanStep(points_array_str, lo, open_paren_count)
    ELSE LET mid  == (lo + hi) \div 2
             left == ScanRange(points_array_str, lo, mid, open_paren_count)
         IN  IF left.close_paren_idx # -1 THEN left
             ELSE ScanRange(points_array_str, mid, hi, left.open_paren_count)

\* lines 43-52: close_paren_idx after the loop
ClosePositionOf(points_array_str) ==
    ScanRange(points_array_str, 0, Len(points_array_str), 1).close_paren_idx

RECURSIVE Floats(_)
\* map(float, pieces), all of it
Floats(pieces) ==
    IF pieces = <<>> THEN <<>> ELSE <<FloatOf(Head(pieces))>> \o Floats(Tail(pieces))

\* Unpack taking the first three items and leaving the rest unread
UnpackFirstThree(floats) ==
    IF \E i \in 1..Len(floats) : i <= 3 /\ ~floats[i].ok
    THEN [error |-> InvalidFloat, point |-> <<>>]
    ELSE IF Len(floats) < 3 THEN [error |-> NotEnough, point |-> <<>>]
    ELSE [error |-> "", point |-> <<floats[1].val, floats[2].val, floats[3].val>>]

\* line 71, x, y, z = map(float, ...): the unpacking pulls the items one by
\* one and at most four of them, so a piece that is no number raises before
\* the count is found wrong
Unpack(floats) ==
    IF \E i \in 1..Len(floats) : i <= 4 /\ ~floats[i].ok
    THEN [error |-> InvalidFloat, point |-> <<>>]
    ELSE IF Len(floats) < 3 THEN [error |-> NotEnough, point |-> <<>>]
    ELSE IF Len(floats) > 3 THEN [error |-> TooMany, point |-> <<>>]
    ELSE [error |-> "", point |-> <<floats[1].val, floats[2].val, floats[3].val>>]

\* lines 70-72: one point
ParsePoint(pt_str) == Unpack(Floats(Split(Strip(Split(pt_str, ")")[1]), ",")))

RECURSIVE ParsePoints(_, _)

\* NextPoint putting the point at the front of the row
NextPointFirst(rest, current_row, p) ==
    IF p.error # "" THEN [error |-> p.error, row |-> <<>>]
    ELSE ParsePoints(rest, <<p.point>> \o current_row)

\* line 72 for the point p read from the head of the list, then the rest of
\* the loop; an exception ends the loop
NextPoint(rest, current_row, p) ==
    IF p.error # "" THEN [error |-> p.error, row |-> <<>>]
    ELSE ParsePoints(rest, Append(current_row, p.point))

\* lines 68-72: the loop over point_strs, current_row being the row so far
ParsePoints(point_strs, current_row) ==
    IF point_strs = <<>> THEN [error |-> "", row |-> current_row]
    ELSE NextPoint(Tail(point_strs), current_row, ParsePoint(Head(point_strs)))

\* lines 65-67
ParseRow(row_block) == ParsePoints(Rest(Split(row_block, "pt(")), <<>>)

RECURSIVE ParseRows(_, _)

\* line 73 for the row r read from the head of the list, then the rest of
\* the loop; an exception ends the loop
NextRow(rest, control_points, r) ==
    IF r.error # "" THEN [error |-> r.error, control_points |-> <<>>]
    ELSE ParseRows(rest, Append(control_points, r.row))

\* lines 64-73: the loop over row_blocks
ParseRows(row_blocks, control_points) ==
    IF row_blocks = <<>> THEN [error |-> "", control_points |-> control_points]
    ELSE NextRow(Tail(row_blocks), control_points, ParseRow(Head(row_blocks)))

\* ParseGrid taking nothing but four rows
ParseGridFour(points_array_str) ==
    IF Len(Rest(Split(points_array_str, "array("))) # 4
    THEN [error |-> "expected 4 rows", control_points |-> <<>>]
    ELSE ParseRows(Rest(Split(points_array_str, "array(")), <<>>)

\* lines 60-73
ParseGrid(points_array_str) ==
    ParseRows(Rest(Split(points_array_str, "array(")), <<>>)

NoSurface ==
    [u_degree |-> 0, u_knot_type |-> "", u_basis |-> "",
     v_degree |-> 0, v_knot_type |-> "", v_basis |-> "",
     control_points |-> <<>>]

\* lines 75-83
SurfaceRecord(params, control_points) ==
    [u_degree       |-> params.u_degree,
     u_knot_type    |-> params.u_knot_type,
     u_basis        |-> params.u_basis,
     v_degree       |-> params.v_degree,
     v_knot_type    |-> params.v_knot_type,
     v_basis        |-> params.v_basis,
     control_points |-> control_points]

Failure(msg) == [error |-> msg, surface |-> NoSurface]

\* lines 75-83 for the grid read, or its exception passing through
Assemble(params, grid) ==
    IF grid.error # "" THEN Failure(grid.error)
    ELSE [error |-> "", surface |-> SurfaceRecord(params, grid.control_points)]

\* line 57: the text the rows are read from
BoundedText(points_array_str, close_paren_idx) ==
    Strip(Slice(points_array_str, 0, close_paren_idx))

\* Bounded without the test of line 54: the slice of line 57 with
\* close_paren_idx = -1 is the text without its last character
BoundedUnchecked(params, points_array_str, close_paren_idx) ==
    Assemble(params,
             ParseGrid(Strip(Slice(points_array_str, 0,
                                   IF close_paren_idx = -1
                                   THEN Len(points_array_str) - 1
                                   ELSE close_paren_idx))))

\* lines 54-83
Bounded(params, points_array_str, close_paren_idx) ==
    IF close_paren_idx = -1 THEN Failure(Mismatched)
    ELSE Assemble(params, ParseGrid(BoundedText(points_array_str, close_paren_idx)))

\* lines 43-83
ParsePointsArray(params, points_array_str) ==
    Bounded(params, points_array_str, ClosePositionOf(points_array_str))

\* lines 27-83, 'array(' standing at param_end_idx
ParseFrom(block, p, param_end_idx) ==
    IF p.error # "" THEN Failure(p.error)
    ELSE ParsePointsArray(p.params,
                          Slice(block, param_end_idx + Len("array("), Len(block)))

\* lines 24-83
ParseAt(block, param_end_idx) ==
    IF param_end_idx = -1 THEN Failure(ArrayMissing)
    ELSE ParseFrom(block, ParseParams(ParamParts(block, param_end_idx)),
                   param_end_idx)

\* lines 23-83: the exception the block raises ("" if none) and the record
\* it appends
ParseBlock(block) == ParseAt(block, Find(block, "array("))

\* the exceptions raised before line 41 is reached
BeforeScan == {ArrayMissing, InvalidInt, IndexOutOfRange}

NoScan ==
    [ran |-> FALSE, points_array_str |-> "", close_paren_idx |-> -1, bounded |-> ""]

\* lines 41-57: the text scanned, close_paren_idx after the loop and the text
\* line 57 keeps ("" if line 55 raises)
ScanRecord(points_array_str, close_paren_idx) ==
    [ran              |-> TRUE,
     points_array_str |-> points_array_str,
     close_paren_idx  |-> close_paren_idx,
     bounded          |-> IF close_paren_idx = -1 THEN ""
                          ELSE BoundedText(points_array_str, close_paren_idx)]

\* lines 41-57
ScanIn(points_array_str) ==
    ScanRecord(points_array_str, ClosePositionOf(points_array_str))

\* what the scan of lines 41-57 did in the iteration for block that ended
\* as outcome
ScanOf(block, outcome) ==
    IF outcome.error \in BeforeScan THEN NoScan
    ELSE ScanIn(Slice(block, Find(block, "array(") + Len("array("), Len(block)))

(***************************************************************************)
(* Source texts.  A text is written from a description: a framing and a    *)
(* list of blocks, each block given by the tokens of its preamble, the     *)
(* coordinate literals of its rows and the record it stands for.  The      *)
(* framings: "bare", the blocks alone; "between", the blocks as the data   *)
(* set writes them, within its header and footer, the list standing        *)
(* between two well-formed blocks; "remarks", the blocks within the header *)
(* and footer with a comment line after each block but the last.           *)
(***************************************************************************)

\* the longest list of freely chosen surface blocks in a source text
MaxBlocks == 2

\* what the coordinate literals of the descriptions denote
LitVal ==
    ("0.0" :> Num(0, 0)) @@ ("1.4" :> Num(14, -1)) @@ ("1.5" :> Num(15, -1)) @@
    ("2.25" :> Num(225, -2)) @@ ("0.84" :> Num(84, -2)) @@
    ("0.784" :> Num(784, -3)) @@ ("0.749" :> Num(749, -3)) @@
    ("0.805" :> Num(805, -3)) @@ ("1.3375" :> Num(13375, -4)) @@
    ("1.4375" :> Num(14375, -4)) @@ ("2.38125" :> Num(238125, -5)) @@
    ("-1" :> Num(-1, 0)) @@ (".5" :> Num(5, -1)) @@ ("2e1" :> Num(2, 1)) @@
    ("-0.2" :> Num(-2, -1)) @@ ("3" :> Num(3, 0)) @@ ("7" :> Num(7, 0)) @@
    ("-1.3" :> Num(-13, -1)) @@ ("2.4" :> Num(24, -1)) @@ ("10" :> Num(1, 1))

\* what the integer tokens of the descriptions denote
IntLit ==
    ("0" :> 0) @@ ("1" :> 1) @@ ("2" :> 2) @@ ("3" :> 3) @@ ("4" :> 4) @@
    ("5" :> 5) @@ ("6" :> 6) @@ ("9" :> 9) @@ ("-4" :> -4)

\* rows 1-4 of the first patch of the data set, src/v3/parser.py lines 106-121
TeapotRows ==
    << << <<"1.4", "2.25", "0.0">>, <<"1.3375", "2.38125", "0.0">>,
          <<"1.4375", "2.38125", "0.0">>, <<"1.5", "2.25", "0.0">> >>,
       << <<"1.4", "2.25", "0.784">>, <<"1.3375", "2.38125", "0.749">>,
          <<"1.4375", "2.38125", "0.805">>, <<"1.5", "2.25", "0.84">> >>,
       << <<"0.784", "2.25", "1.4">>, <<"0.749", "2.38125", "1.3375">>,
          <<"0.805", "2.38125", "1.4375">>, <<"0.84", "2.25", "1.5">> >>,
       << <<"0.0", "2.25", "1.4">>, <<"0.0", "2.38125", "1.3375">>,
          <<"0.0", "2.38125", "1.4375">>, <<"0.0", "2.25", "1.5">> >> >>

RaggedRows ==
    << << <<"0.0", "2.4", "-1.3">>, <<"-0.2", "7", "10">> >>,
       << <<"3", "2.25", "0.0">> >> >>

OneRow == << << <<"7", "3", "7">> >> >>

\* a row without points before a row of two
EmptyFirstRows == << <<>>, << <<"1.5", "2.25", "0.84">>, <<"-1", ".5", "2e1">> >> >>

Params(ud, uk, ub, vd, vk, vb) ==
    [u_degree |-> ud, u_knot_type |-> uk, u_basis |-> ub,
     v_degree |-> vd, v_knot_type |-> vk, v_basis |-> vb]

\* a string token as written
Q(str) == "\"" \o str \o "\""

\* the preamble of the data set, src/v3/parser.py line 104
TeapotTokens == <<"4", Q("ec_open"), Q("kv_bezier"), "4", Q("ec_open"), Q("kv_bezier")>>

TeapotParams == Params(4, "ec_open", "kv_bezier", 4, "ec_open", "kv_bezier")

\* the preamble with the degrees ud and vd
Degrees(ud, vd) == <<ud, Q("ec_open"), Q("kv_bezier"), vd, Q("ec_open"), Q("kv_bezier")>>

\* A block description:
\*   tokens     the tokens of the preamble, as written
\*   sep        the text between two tokens
\*   comma      whether a comma follows the last token
\*   gap        the text before the points array
\*   params     the six parameters the preamble stands for
\*   hasArray   whether the points array is written
\*   lead       the text between the outer 'array(' and the first row
\*   rows       the coordinate literals, by row and point
\*   omit       k > 0: the k-th ')' of the block is left out
\*   wellformed the block is a surface of the dialect
\*   accepted   the parser is expected to emit the block's record
Block(tokens, sep, comma, gap, params, hasArray, lead, rows, omit, wellformed, accepted) ==
    [tokens |-> tokens, sep |-> sep, comma |-> comma, gap |-> gap,
     params |-> params, hasArray |-> hasArray, lead |-> lead, rows |-> rows,
     omit |-> omit, wellformed |-> wellformed, accepted |-> accepted]

\* a block written as the data set writes its blocks
Plain(tokens, params, rows, omit, wellformed, accepted) ==
    Block(tokens, ", ", TRUE, "\n\t", params, TRUE, " ", rows, omit, wellformed, accepted)

KindNames ==
    {"Teapot", "Small", "Ragged", "NoRows", "EmptyRow", "ZeroDegree", "Loose",
     "FiveComma", "NoArray", "FewParams", "BadDegree", "BadVDegree",
     "BadCoord", "TwoCoords", "FourCoords", "OmitPt", "OmitRow", "Unclosed"}

KindOf(name) ==
    CASE name = "Teapot" ->
           Block(TeapotTokens, ", ", TRUE, "\n\t", TeapotParams, TRUE, "\n\t    ",
                 TeapotRows, 0, TRUE, TRUE)
      [] name = "Small" ->
           Block(<<"3", Q("a"), Q("kv"), "2", Q("ec"), Q("b")>>, ",", FALSE, " ",
                 Params(3, "a", "kv", 2, "ec", "b"), TRUE, "",
                 << << <<"-1", ".5", "2e1">> >> >>, 0, TRUE, TRUE)
      [] name = "Ragged" ->
           Plain(Degrees("2", "1"),
                 Params(2, "ec_open", "kv_bezier", 1, "ec_open", "kv_bezier"),
                 RaggedRows, 0, TRUE, TRUE)
      [] name = "NoRows" ->
           Plain(Degrees("1", "1"),
                 Params(1, "ec_open", "kv_bezier", 1, "ec_open", "kv_bezier"),
                 <<>>, 0, TRUE, TRUE)
      [] name = "EmptyRow" ->
           Plain(Degrees("3", "1"),
                 Params(3, "ec_open", "kv_bezier", 1, "ec_open", "kv_bezier"),
                 EmptyFirstRows, 0, TRUE, TRUE)
      [] name = "ZeroDegree" ->
           Plain(Degrees("0", "-4"),
                 Params(0, "ec_open", "kv_bezier", -4, "ec_open", "kv_bezier"),
                 OneRow, 0, FALSE, TRUE)
      [] name = "Loose" ->
           Plain(<<"4", "ec_open", Q("kv_bezier"), "5", Q("ec"), "kv", "9", Q("x")>>,
                 Params(4, "ec_open", "kv_bezier", 5, "ec", "kv"),
                 OneRow, 0, FALSE, TRUE)
      [] name = "FiveComma" ->
           Plain(<<"4", Q("ec_open"), Q("kv_bezier"), "6", Q("ec_open")>>,
                 Params(4, "ec_open", "kv_bezier", 6, "ec_open", ""),
                 OneRow, 0, FALSE, TRUE)
      [] name = "NoArray" ->
           Block(TeapotTokens, ", ", TRUE, "\n\t", TeapotParams, FALSE, "",
                 <<>>, 0, FALSE, FALSE)
      [] name = "FewParams" ->
           Block(<<"4", Q("ec_open"), Q("kv_bezier"), "4", Q("ec_open")>>, ", ",
                 FALSE, " ", TeapotParams, TRUE, " ", OneRow, 0, FALSE, FALSE)
      [] name = "BadDegree" ->
           Plain(Degrees("4.0", "4"), TeapotParams, OneRow, 0, FALSE, FALSE)
      [] name = "BadVDegree" ->
           Plain(Degrees("4", Q("4")), TeapotParams, OneRow, 0, FALSE, FALSE)
      [] name = "BadCoord" ->
           Plain(TeapotTokens, TeapotParams,
                 << << <<"0.0", "2.4", "-1.3">>, <<"-0.2", "7", "10">> >>,
                    << <<"3", "2.25", "1.4.5">> >> >>, 0, FALSE, FALSE)
      [] name = "TwoCoords" ->
           Plain(TeapotTokens, TeapotParams,
                 << << <<"0.0", "2.4", "-1.3">>, <<"-0.2", "7">> >> >>,
                 0, FALSE, FALSE)
      [] name = "FourCoords" ->
           Plain(TeapotTokens, TeapotParams,
                 << << <<"0.0", "2.4", "-1.3", "7">> >>,
                    << <<"3", "2.25", "0.0">> >> >>, 0, FALSE, FALSE)
      [] name = "OmitPt" ->
           Plain(Degrees("2", "1"),
                 Params(2, "ec_open", "kv_bezier", 1, "ec_open", "kv_bezier"),
                 RaggedRows, 1, FALSE, FALSE)
      [] name = "OmitRow" ->
           Plain(Degrees("2", "1"),
                 Params(2, "ec_open", "kv_bezier", 1, "ec_open", "kv_bezier"),
                 RaggedRows, 3, FALSE, TRUE)
      [] name = "Unclosed" ->
           Block(TeapotTokens, ", ", TRUE, "\n\t", TeapotParams, TRUE, " ( ( ( ",
                 OneRow, 0, FALSE, FALSE)

RECURSIVE Join(_, _)
\* the texts of lst with sep between them
Join(lst, sep) ==
    IF lst = <<>> THEN ""
    ELSE IF Len(lst) = 1 THEN lst[1]
    ELSE lst[1] \o sep \o Join(Tail(lst), sep)

PointText(pt) == "pt( " \o Join(pt, ", ") \o " )"

RowText(row) ==
    "array( " \o Join([i \in 1..Len(row) |-> PointText(row[i])], ",\n\t\t") \o " )"

RowsText(rows) == Join([i \in 1..Len(rows) |-> RowText(rows[i])], ",\n\t    ")

\* the text between 'surface(' and the points array
PreambleText(b) ==
    " " \o Join(b.tokens, b.sep) \o (IF b.comma THEN "," ELSE "") \o b.gap

\* text without the ')' that follows the k-th of its pieces
DropClose(pieces, k) ==
    Join(SubSeq(pieces, 1, k), ")") \o Join(SubSeq(pieces, k + 1, Len(pieces)), ")")

\* text without its k-th ')' (all of it if k = 0 or there is no k-th ')')
WithoutClose(text, k) ==
    IF k = 0 THEN text ELSE DropClose(Split(text, ")"), k)

\* the text of a block, from its 'surface(' to the ')' that closes it
BlockText(b) ==
    WithoutClose(
        "surface(" \o PreambleText(b)
        \o (IF b.hasArray THEN "array(" \o b.lead \o RowsText(b.rows) \o " )" ELSE "")
        \o " )",
        b.omit)

\* the text before the first block and after the last one, as in the data
\* set (src/v3/parser.py lines 95-103 and 607), the comment naming tokens
Header == "\n#\n# teapot: pt( array(\n#\n\nTeaSrfs: array(\n    "

Footer == " );\n"

\* a comment line between two blocks, naming tokens as the header does
Remark == ",\n    # array( pt( 1.4, 2.25, 0.0 ) )\n    "

Framings == {"bare", "between", "remarks"}

\* the kinds of the blocks of a text, in the order they are written
BlocksOf(doc) ==
    IF doc.framing = "between" THEN <<"Small">> \o doc.blocks \o <<"Ragged">>
    ELSE doc.blocks

RECURSIVE BlockTexts(_)
BlockTexts(kinds) ==
    IF kinds = <<>> THEN <<>>
    ELSE <<BlockText(KindOf(Head(kinds)))>> \o BlockTexts(Tail(kinds))

DocText(doc) ==
    IF doc.framing = "bare" THEN Join(BlockTexts(BlocksOf(doc)), "\n")
    ELSE IF doc.framing = "remarks"
    THEN Header \o Join(BlockTexts(BlocksOf(doc)), Remark) \o Footer
    ELSE Header \o Join(BlockTexts(BlocksOf(doc)), ",\n    ") \o Footer

SeqsUpTo(n, S) == UNION {[1..k -> S] : k \in 0..n}

Docs == [framing : Framings, blocks : SeqsUpTo(MaxBlocks, KindNames)]

\* the control points the coordinate literals of a block stand for
GridOf(rows) ==
    [r \in 1..Len(rows) |->
        [p \in 1..Len(rows[r]) |->
            [c \in 1..Len(rows[r][p]) |-> LitVal[rows[r][p][c]]]]]

(***************************************************************************)
(* parse_teapot_data as a state machine: one step for line 15, one step    *)
(* per iteration of the loop of line 17, one step for line 89.             *)
(***************************************************************************)

VARIABLES
    input,           \* the description data_string was written from
    data_string,     \* the argument of parse_teapot_data
    surface_blocks,  \* line 15
    done,            \* the number of blocks the loop has processed
    surfaces,        \* line 11
    printed,         \* the lines written by print, line 86
    outcomes,        \* per processed block, how its iteration ended
    scans,           \* per processed block, the scan of lines 41-57
    result,          \* the value returned, line 89
    pc               \* "split", "loop", "returned", "raised"

vars ==
    <<input, data_string, surface_blocks, done, surfaces, printed, outcomes,
      scans, result, pc>>

NoResult == [TeaSrfs |-> <<>>]

Init ==
    /\ input \in Docs
    /\ data_string = DocText(input)
    /\ surface_blocks = <<>>
    /\ done = 0
    /\ surfaces = <<>>
    /\ printed = <<>>
    /\ outcomes = <<>>
    /\ scans = <<>>
    /\ result = NoResult
    /\ pc = "split"

\* SplitBlocks keeping the text before the first 'surface('
SplitAll(text) == Split(text, "surface(")

\* line 15
SplitBlocks(text) == Rest(Split(text, "surface("))

SplitText ==
    /\ pc = "split"
    /\ surface_blocks' = SplitBlocks(data_string)
    /\ pc' = "loop"
    /\ UNCHANGED <<input, data_string, done, surfaces, printed, outcomes, scans,
                   result>>

\* AppendSurface putting the record first
PrependSurface(lst, surface) == <<surface>> \o lst

\* lines 75-83
AppendSurface(lst, surface) == Append(lst, surface)

\* line 86, up to the error
Excerpt(blk) == "Error parsing surface block: " \o Slice(blk, 0, 200) \o "... Error: "

\* line 86
Message(blk, error) == Excerpt(blk) \o error

\* lines 75-83: the try block ends without an exception, the loop goes on
Emit(outcome) ==
    /\ outcome.error = ""
    /\ surfaces' = AppendSurface(surfaces, outcome.surface)
    /\ outcomes' = Append(outcomes, "emitted")
    /\ done' = done + 1
    /\ UNCHANGED <<printed, pc>>

\* Skip appending the record left unfinished as well
SkipAppending(blk, outcome) ==
    /\ outcome.error # ""
    /\ printed' = Append(printed, Message(blk, outcome.error))
    /\ surfaces' = Append(surfaces, outcome.surface)
    /\ outcomes' = Append(outcomes, "skipped")
    /\ done' = done + 1
    /\ UNCHANGED pc

\* Skip without the except clause: the exception leaves the call
SkipRaising(blk, outcome) ==
    /\ outcome.error # ""
    /\ pc' = "raised"
    /\ UNCHANGED <<surfaces, printed, outcomes, done>>

\* lines 85-87: the except clause prints and continues
Skip(blk, outcome) ==
    /\ outcome.error # ""
    /\ printed' = Append(printed, Message(blk, outcome.error))
    /\ outcomes' = Append(outcomes, "skipped")
    /\ done' = done + 1
    /\ UNCHANGED <<surfaces, pc>>

\* lines 20-87 for the block blk, the try block ending as outcome
Handle(blk, outcome) ==
    /\ Emit(outcome) \/ Skip(blk, outcome)
    /\ scans' = Append(scans, ScanOf(blk, outcome))

\* lines 17-87: one iteration of the loop
ProcessBlock ==
    /\ pc = "loop"
    /\ done < Len(surface_blocks)
    /\ Handle(surface_blocks[done + 1], ParseBlock(surface_blocks[done + 1]))
    /\ UNCHANGED <<input, data_string, surface_blocks, result>>

\* line 89
Return ==
    /\ pc = "loop"
    /\ done = Len(surface_blocks)
    /\ result' = [TeaSrfs |-> surfaces]
    /\ pc' = "returned"
    /\ UNCHANGED <<input, data_string, surface_blocks, done, surfaces, printed,
                   outcomes, scans>>

Next == SplitText \/ ProcessBlock \/ Return

Spec == Init /\ [][Next]_vars

\* lines 15-89: control moves on, from the split into the loop, through one
\* iteration of the loop, or out of the finished loop to the return statement
Advance ==
    \/ pc = "split" /\ pc' = "loop" /\ done' = done
    \/ pc = "loop" /\ done < Len(surface_blocks) /\ done' = done + 1 /\ pc' = pc
    \/ pc = "loop" /\ done = Len(surface_blocks) /\ pc' = "returned" /\ done' = done

\* the call is single-threaded and synchronous, no step of it waits for
\* anything: while a statement is left to execute, the call executes it
FairSpec == Spec /\ WF_<<pc, done>>(Advance)

(***************************************************************************)
(* What the claims speak of: the blocks as described, the pieces of their  *)
(* preambles, and what became of each processed block.                     *)
(***************************************************************************)

\* the kinds of the blocks of the text, in text order
kinds == BlocksOf(input)

\* the description of the i-th block of the text
Kind(i) == KindOf(kinds[i])

\* the record a block stands for
RecordOf(b) == SurfaceRecord(b.params, GridOf(b.rows))

\* the number of the first i processed blocks whose iteration ended as what
Count(what, i) == Cardinality({j \in 1..i : outcomes[j] = what})

\* the record appended for the i-th block, if its iteration emitted one
RecordAt(i) == surfaces[Count("emitted", i)]

\* the line printed for the i-th block, if its iteration was skipped
LineAt(i) == printed[Count("skipped", i)]

\* the i-th block left no record, and one printed line names it
DroppedAndReported(i) ==
    /\ outcomes[i] = "skipped"
    /\ Len(surfaces) = Count("emitted", done)
    /\ Len(printed) = Count("skipped", done)
    /\ Slice(LineAt(i), 0, Len(Excerpt(surface_blocks[i]))) = Excerpt(surface_blocks[i])

\* the indices where tok stands in text
Occurrences(text, tok) ==
    {j \in 0..(Len(text) - Len(tok)) : Slice(text, j, j + Len(tok)) = tok}

\* the pieces between the commas of a preamble
Pieces(b) == IF b.comma THEN Append(b.tokens, "") ELSE b.tokens

IsIntToken(tok) == tok \in DOMAIN IntLit

IsQuoted(tok) ==
    Len(tok) >= 2 /\ CharAt(tok, 0) = "\"" /\ CharAt(tok, Len(tok) - 1) = "\""

\* a quoted token without its quotes
Inner(tok) == Slice(tok, 1, Len(tok) - 1)

\* six tokens of the types integer, string, string, integer, string, string
Typed(toks) ==
    /\ Len(toks) = 6
    /\ IsIntToken(toks[1]) /\ IsQuoted(toks[2]) /\ IsQuoted(toks[3])
    /\ IsIntToken(toks[4]) /\ IsQuoted(toks[5]) /\ IsQuoted(toks[6])

(***************************************************************************)
(* C1.  A text of N well-formed blocks and one block with one ')' left     *)
(* out: the call returns, the document holds N surfaces, one line is       *)
(* printed, and the block with the missing ')' left no record.             *)
(***************************************************************************)

OneCloseMissing ==
    \E i \in 1..Len(kinds) :
        /\ Kind(i).omit > 0
        /\ \A j \in 1..Len(kinds) : j # i => Kind(j).wellformed /\ Kind(j).omit = 0

C1_Isolation ==
    pc = "returned" /\ OneCloseMissing =>
        /\ Len(result.TeaSrfs) = Len(kinds) - 1
        /\ Len(printed) = 1
        /\ \A i \in 1..Len(kinds) : Kind(i).omit > 0 => outcomes[i] = "skipped"

(***************************************************************************)
(* C2.  Every call returns, with every block processed, and the document   *)
(* holds the record of every block the parser accepts, the blocks after a  *)
(* skipped block included.                                                 *)
(***************************************************************************)

AcceptedReturned ==
    \A j \in 1..Len(kinds) :
        Kind(j).accepted =>
            \E i \in 1..Len(result.TeaSrfs) : result.TeaSrfs[i] = RecordOf(Kind(j))

C2_BestEffort ==
    <>(pc = "returned" /\ done = Len(kinds) /\ AcceptedReturned)

C2_Witness ==
    /\ pc = "returned"
    /\ \E i, j \in 1..done :
          /\ i < j
          /\ outcomes[i] = "skipped"
          /\ outcomes[j] = "emitted"
          /\ \E k \in 1..Len(result.TeaSrfs) : result.TeaSrfs[k] = RecordOf(Kind(j))

(***************************************************************************)
(* C3.  The returned list is, in text order, the records of the blocks     *)
(* that were emitted: the record of the i-th block stands at the number of *)
(* blocks emitted up to it.                                                *)
(***************************************************************************)

C3_Order ==
    pc = "returned" =>
        /\ Len(result.TeaSrfs) = Count("emitted", done)
        /\ \A i \in 1..done :
              outcomes[i] = "emitted" =>
                  result.TeaSrfs[Count("emitted", i)] = RecordOf(Kind(i))

C3_Witness ==
    /\ pc = "returned"
    /\ \E i, j, k \in 1..done :
          /\ i < j /\ j < k
          /\ outcomes[i] = "emitted" /\ outcomes[j] = "skipped"
          /\ outcomes[k] = "emitted"
          /\ RecordOf(Kind(i)) # RecordOf(Kind(k))
          /\ result.TeaSrfs = <<RecordOf(Kind(i)), RecordOf(Kind(k))>>

(***************************************************************************)
(* C4.  As stated: a block whose preamble does not split on commas into    *)
(* exactly six pieces of the types integer, string, string, integer,       *)
(* string, string is dropped and reported.                                 *)
(***************************************************************************)

TooFewOrNoDegree(pieces) ==
    \/ Len(pieces) < 6
    \/ ~IsIntToken(pieces[1])
    \/ ~IsIntToken(pieces[4])

(***************************************************************************)
(* C4, amended.  A block whose preamble splits on commas into fewer than   *)
(* six pieces, or whose first or fourth piece is not an integer, is        *)
(* dropped and reported; pieces after the sixth are not read, and the      *)
(* second, third, fifth and sixth pieces are taken as they stand.          *)
(***************************************************************************)

C5_Parameters ==
    \A i \in 1..done :
        outcomes[i] = "emitted" /\ Typed(Kind(i).tokens) =>
            /\ RecordAt(i).u_degree = IntLit[Kind(i).tokens[1]]
            /\ RecordAt(i).u_knot_type = Inner(Kind(i).tokens[2])
            /\ RecordAt(i).u_basis = Inner(Kind(i).tokens[3])
            /\ RecordAt(i).v_degree = IntLit[Kind(i).tokens[4]]
            /\ RecordAt(i).v_knot_type = Inner(Kind(i).tokens[5])
            /\ RecordAt(i).v_basis = Inner(Kind(i).tokens[6])
            /\ Kind(i).tokens = TeapotTokens =>
                  /\ RecordAt(i).u_degree = 4 /\ RecordAt(i).v_degree = 4
                  /\ RecordAt(i).u_knot_type = "ec_open"
                  /\ RecordAt(i).v_knot_type = "ec_open"
                  /\ RecordAt(i).u_basis = "kv_bezier"
                  /\ RecordAt(i).v_basis = "kv_bezier"

C5_Witness ==
    \E i, j \in 1..done :
        /\ kinds[i] = "Teapot" /\ outcomes[i] = "emitted"
        /\ RecordAt(i).u_knot_type = "ec_open" /\ RecordAt(i).v_degree = 4
        /\ kinds[j] = "Small" /\ outcomes[j] = "emitted"
        /\ RecordAt(j).u_degree = 3 /\ RecordAt(j).v_degree = 2
        /\ RecordAt(j).v_basis = "b"

\* the indices of the character c in text
Positions(text, c) == {j \in 0..(Len(text) - 1) : CharAt(text, j) = c}

\* the depth after the character at index p of a text entered at depth 1,
\* its '(' standing at the indices O and its ')' at the indices C
DepthAfter(O, C, p) ==
    1 + Cardinality({q \in O : q <= p}) - Cardinality({q \in C : q <= p})

\* no ')' of the text brings the depth back to 0
StaysOpen(text) ==
    \E O \in {Positions(text, "(")} : \E C \in {Positions(text, ")")} :
        \A p \in C : DepthAfter(O, C, p) # 0

\* the text of a block after the first of its 'array(' tokens, which stand
\* at the indices A
AfterArray(blk, A) ==
    Slice(blk, (CHOOSE a \in A : \A b \in A : a <= b) + Len("array("), Len(blk))

\* the block has no 'array(' token, or the depth after the first one never
\* comes back to 0
Structural(blk) ==
    \E A \in {Occurrences(blk, "array(")} :
        A = {} \/ StaysOpen(AfterArray(blk, A))

(***************************************************************************)
(* C6.  A block without an 'array(' token, and a block whose depth after   *)
(* the first 'array(' never comes back to 0, leaves no record and gets     *)
(* one printed line.                                                       *)
(***************************************************************************)

C6_Structural ==
    \A i \in 1..done :
        DroppedAndReported(i) \/ ~Structural(surface_blocks[i])

C6_Witness ==
    \E i, j \in 1..done :
        /\ kinds[i] = "NoArray" /\ kinds[j] = "Unclosed"
        /\ Structural(surface_blocks[i]) /\ Structural(surface_blocks[j])
        /\ DroppedAndReported(i) /\ DroppedAndReported(j)
        /\ LineAt(i) = Message(surface_blocks[i], ArrayMissing)
        /\ LineAt(j) = Message(surface_blocks[j], Mismatched)

\* a point written with three coordinates that are numbers
GoodPoint(pt) == Len(pt) = 3 /\ \A c \in 1..3 : pt[c] \in DOMAIN LitVal

\* some point of the rows is not written so
SomeBadPoint(rows) ==
    \E r \in 1..Len(rows) : \E p \in 1..Len(rows[r]) : ~GoodPoint(rows[r][p])

(***************************************************************************)
(* C7.  A block with a point that is not three numbers between its commas  *)
(* is dropped and reported as a whole: none of its rows or points is in a  *)
(* record.                                                                 *)
(***************************************************************************)

C7_Coordinate ==
    \A i \in 1..done :
        Kind(i).hasArray /\ SomeBadPoint(Kind(i).rows) => DroppedAndReported(i)

C7_Witness ==
    \E i, j \in 1..done :
        /\ kinds[i] = "BadCoord" /\ kinds[j] = "FourCoords"
        /\ DroppedAndReported(i) /\ DroppedAndReported(j)
        /\ GoodPoint(Kind(i).rows[1][1])
        /\ LineAt(i) = Message(surface_blocks[i], InvalidFloat)
        /\ LineAt(j) = Message(surface_blocks[j], TooMany)
        /\ surfaces = <<>>

(***************************************************************************)
(* C8.  The record of a well-formed block holds its rows in the order      *)
(* written, each row its points in the order written, each point its x, y  *)
(* and z as written; the block of the data set gives 4 rows of 4 points.   *)
(***************************************************************************)

C8_Grid ==
    \A i \in 1..done :
        Kind(i).wellformed =>
            /\ outcomes[i] = "emitted"
            /\ RecordAt(i).control_points = GridOf(Kind(i).rows)
            /\ Kind(i).rows = TeapotRows =>
                  /\ Len(RecordAt(i).control_points) = 4
                  /\ \A r \in 1..4 : Len(RecordAt(i).control_points[r]) = 4

C8_Witness ==
    \E i \in 1..done :
        /\ kinds[i] = "Teapot" /\ outcomes[i] = "emitted"
        /\ Len(RecordAt(i).control_points) = 4
        /\ RecordAt(i).control_points[1][1] = <<Num(14, -1), Num(225, -2), Num(0, 0)>>
        /\ RecordAt(i).control_points[4][4] = <<Num(0, 0), Num(225, -2), Num(15, -1)>>

(***************************************************************************)
(* C9.  A text without a 'surface(' token gives no surface and no printed  *)
(* line, and any text gives as many surfaces and printed lines together    *)
(* as it has 'surface(' tokens: the text before the first gives none.      *)
(***************************************************************************)

C9_Empty ==
    pc = "returned" =>
        \E T \in {Occurrences(data_string, "surface(")} :
            /\ Len(result.TeaSrfs) + Len(printed) = Cardinality(T)
            /\ T = {} => result.TeaSrfs = <<>> /\ printed = <<>>

C9_Witness ==
    /\ pc = "returned"
    /\ data_string = ""
    /\ result = [TeaSrfs |-> <<>>]
    /\ printed = <<>>

(***************************************************************************)
(* C10.  As stated: every record of the returned document has a positive   *)
(* u_degree and a positive v_degree.                                       *)
(***************************************************************************)

C10_PositiveDegrees ==
    pc = "returned" =>
        \A k \in 1..Len(result.TeaSrfs) :
            result.TeaSrfs[k].u_degree > 0 /\ result.TeaSrfs[k].v_degree > 0

\* the index close is the first one after which the depth is 0, in a text
\* whose '(' stand at the indices O and whose ')' at the indices C
FirstZero(O, C, close) ==
    /\ close \in C
    /\ DepthAfter(O, C, close) = 0
    /\ \A p \in O \cup C : p < close => DepthAfter(O, C, p) >= 1

\* the scan of the text found what the depths of the text say: the first
\* index of depth 0, or none if there is none
ScanFound(text, close) ==
    \E O \in {Positions(text, "(")} : \E C \in {Positions(text, ")")} :
        IF close = -1 THEN \A p \in C : DepthAfter(O, C, p) # 0
        ELSE FirstZero(O, C, close)

(***************************************************************************)
(* C11.  As stated: the scan ends at the first index after which the depth *)
(* is 0, the depth being at least 1 before, and the text the rows are read *)
(* from is exactly the text before that index.                             *)
(***************************************************************************)

C11_ExactText ==
    \A i \in 1..done :
        scans[i].ran /\ scans[i].close_paren_idx # -1 =>
            /\ ScanFound(scans[i].points_array_str, scans[i].close_paren_idx)
            /\ scans[i].bounded =
                   Slice(scans[i].points_array_str, 0, scans[i].close_paren_idx)

(***************************************************************************)
(* C11, amended.  The scan ends at the first index after which the depth   *)
(* is 0, the depth being at least 1 before, and finds none if there is     *)
(* none; the text the rows are read from is the text before that index     *)
(* without the white space at its two ends.                                *)
(***************************************************************************)

C11_Scan ==
    \A i \in 1..done :
        scans[i].ran =>
            /\ ScanFound(scans[i].points_array_str, scans[i].close_paren_idx)
            /\ scans[i].close_paren_idx # -1 =>
                   scans[i].bounded =
                       Strip(Slice(scans[i].points_array_str, 0,
                                   scans[i].close_paren_idx))

\* the depth of the text is 0 again after a later index than close
ZeroAgain(text, close) ==
    \E O \in {Positions(text, "(")} : \E C \in {Positions(text, ")")} :
        \E p \in O \cup C : p > close /\ DepthAfter(O, C, p) = 0

C11_Witness ==
    \E i \in 1..done :
        /\ kinds[i] = "Teapot" /\ outcomes[i] = "emitted"
        /\ scans[i].ran /\ scans[i].close_paren_idx > 0
        /\ ZeroAgain(scans[i].points_array_str, scans[i].close_paren_idx)
        /\ scans[i].bounded #
               Slice(scans[i].points_array_str, 0, scans[i].close_paren_idx)
        /\ Slice(scans[i].bounded, 0, Len("array(")) = "array("

\* the number of the 'pt(' tokens, standing at the indices P, between the
\* 'array(' token at index a and the next of the 'array(' tokens at A
PointsAfter(A, P, a) ==
    Cardinality({p \in P : a < p /\ \A b \in A : a < b => p < b})

\* control_points has a row per 'array(' token of the text, in text order,
\* and the row as many points as 'pt(' tokens follow its token
ShapeOf(control_points, A, P) ==
    /\ Len(control_points) = Cardinality(A)
    /\ \A a \in A :
          Len(control_points[1 + Cardinality({b \in A : b < a})]) = PointsAfter(A, P, a)

ShapeFromText(control_points, text) ==
    \E A \in {Occurrences(text, "array(")} : \E P \in {Occurrences(text, "pt(")} :
        ShapeOf(control_points, A, P)

(***************************************************************************)
(* C12.  The record of an emitted block has as many rows as the bounded    *)
(* text has 'array(' tokens and each row as many points as its text has    *)
(* 'pt(' tokens; blocks without rows, with a row without points and with   *)
(* rows of different lengths are emitted, whatever their degrees.          *)
(***************************************************************************)

C12_Shape ==
    \A i \in 1..done :
        /\ Kind(i).wellformed => outcomes[i] = "emitted"
        /\ outcomes[i] = "emitted" =>
               ShapeFromText(RecordAt(i).control_points, scans[i].bounded)

C12_Witness ==
    \E i, j, k \in 1..done :
        /\ kinds[i] = "NoRows" /\ kinds[j] = "EmptyRow" /\ kinds[k] = "Ragged"
        /\ outcomes[i] = "emitted" /\ outcomes[j] = "emitted"
        /\ outcomes[k] = "emitted"
        /\ RecordAt(i).control_points = <<>>
        /\ RecordAt(i).u_degree = 1
        /\ Len(RecordAt(j).control_points) = 2
        /\ RecordAt(j).control_points[1] = <<>>
        /\ Len(RecordAt(j).control_points[2]) = 2
        /\ Len(RecordAt(k).control_points[1]) = 2
        /\ Len(RecordAt(k).control_points[2]) = 1
        /\ RecordAt(k).u_degree = 2 /\ RecordAt(k).v_degree = 1

\* the text of the block ends with the ')' that matches its 'surface(': no
\* ')' is left out and no '(' is written that is not closed
Closed(b) == b.omit = 0 /\ Positions(b.lead, "(") = {}

(***************************************************************************)
(* C13.  As stated: what stands between the ')' that closes a block and    *)
(* the next 'surface(' (or the end of the text) has no effect: two blocks  *)
(* of the same text up to that ')' end alike, emitted with the same record *)
(* or both dropped, whatever follows each of them.                         *)
(***************************************************************************)

C13_Boundary ==
    \A i, j \in 1..done :
        kinds[i] = kinds[j] /\ Closed(Kind(i)) =>
            /\ outcomes[i] = outcomes[j]
            /\ outcomes[i] = "emitted" => RecordAt(i) = RecordAt(j)

\* the keys of a complete record
Fields ==
    {"u_degree", "u_knot_type", "u_basis", "v_degree", "v_knot_type", "v_basis",
     "control_points"}

\* the step appends one complete record and prints nothing
Appended ==
    /\ Len(surfaces') = Len(surfaces) + 1
    /\ SubSeq(surfaces', 1, Len(surfaces)) = surfaces
    /\ DOMAIN surfaces'[Len(surfaces')] = Fields
    /\ printed' = printed

\* the step prints one line and leaves the records alone
Reported ==
    /\ surfaces' = surfaces
    /\ Len(printed') = Len(printed) + 1
    /\ SubSeq(printed', 1, Len(printed)) = printed

\* what a step does to the records and the printed lines
OneOutcome ==
    /\ Len(surfaces) + Len(printed) = done
    /\ Len(surfaces') + Len(printed') = done'
    /\ done' \in {done, done + 1}
    /\ done' <= Len(surface_blocks')
    /\ done' = done + 1 => Appended \/ Reported
    /\ done' = done => surfaces' = surfaces /\ printed' = printed
    /\ pc' = "returned" => result'.TeaSrfs = surfaces' /\ done' = Len(surface_blocks')

(***************************************************************************)
(* C14.  After k blocks the records and the printed lines are k together:  *)
(* every iteration either appends one complete record and prints nothing,  *)
(* or prints one line and leaves the records alone; no other step touches  *)
(* them, and the records returned are the records appended.                *)
(***************************************************************************)

C14_OneOutcome == [][OneOutcome]_vars

C14_Witness ==
    /\ pc = "returned"
    /\ done = 4
    /\ Len(surfaces) = 2 /\ Len(printed) = 2
    /\ outcomes = <<"emitted", "skipped", "skipped", "emitted">>
    /\ \A k \in 1..2 : DOMAIN result.TeaSrfs[k] = Fields

====
